---- MODULE Spec2Model ----
(***************************************************************************)
(* RelatoRecibo, OCR extraction pipeline (pwa-v2/backend/app).             *)
(*                                                                         *)
(* Texts are sequences of one-character strings.  Monetary amounts are     *)
(* exact decimals with two places and are carried as an integer number of  *)
(* cents (Decimal("125.50") is 12550).  Confidence scores are carried in   *)
(* hundredths (0.95 is 95).  None is Python's None.                        *)
(***************************************************************************)
EXTENDS Integers, Sequences, FiniteSets, TLC

VARIABLES
    text,        \* ValueParser: the OCR text handed to the parser
    result,      \* ValueParser: what extract_value returned
    calls,       \* ValueParser: number of extract_value calls made on text
    all_values,  \* ValueParser: what extract_all_values returned on text
    log,         \* ValueParser: the results of repeated extract_value calls on text
    leftover,    \* ValueParser: the list  values  the latest call ended with
    ocr_data,    \* calculate_confidence: the image_to_data dictionary
    score,       \* calculate_confidence: the returned score, in hundredths
    receipt,     \* the receipt's row in the receipts table
    uploads,     \* number of upload_receipt_image requests that scheduled a task
    pc,          \* per background task: where process_ocr_background stands
    eng,         \* per background task: what the recognition engine did
    ext,         \* per background task: what extract_receipt_data returned or raised
    upd,         \* per background task: the update_data dictionary
    caught,      \* per background task: the exception caught at line 104
    loop,        \* the task that occupies the event loop of the process, or 0
    img,         \* per background task: the image bytes it was given and their
                 \* preprocessing
    hist,        \* per background task: how often the engine was invoked, an
                 \* extraction failure reached the task, 'error' was written,
                 \* the OCR result was written
    raw,         \* calculate_confidence: an arbitrary argument
    outcome,     \* calculate_confidence: how the call on raw ended
    brl_str,     \* currency: the string handed to parse_value and parse_brl
    amount,      \* currency: the amount brl_str was formatted from, if any
    parsed,      \* currency: how parse_value and parse_brl ended on brl_str
    http,        \* the latest upload or delete request: the step it failed at
                 \* and the status code of its response
    storage,     \* the receipt's files in the storage bucket
    exists,      \* whether the receipt's row is in the receipts table
    xcall        \* OCRExtractor called directly: the image, and per public
                 \* operation what the engine did and how the call ended

parserVars == <<text, result, calls, all_values, log, leftover>>
scorerVars == <<ocr_data, score>>
pipeVars   == <<receipt, uploads, pc, eng, ext, upd, caught, loop, img, hist>>
rawVars    == <<raw, outcome>>
currencyVars == <<brl_str, amount, parsed>>
apiVars    == <<http, storage, exists>>
extractorVars == <<xcall>>

vars == <<text, result, calls, all_values, log, leftover, ocr_data, score,
          receipt, uploads, pc, eng, ext, upd, caught, loop, img, hist,
          raw, outcome, brl_str, amount, parsed, http, storage, exists, xcall>>

\* Optional[X]: None is the empty tuple, a present x is <<x>>
None == <<>>
Some(x) == <<x>>

(***************************************************************************)
(* Characters                                                              *)
(***************************************************************************)
SP == " "
NL == "\n"
TAB == "\t"

Digits == {"0", "1", "2", "3", "4", "5", "6", "7", "8", "9"}

DigitSeq == <<"0", "1", "2", "3", "4", "5", "6", "7", "8", "9">>

\* str.strip() and the regular expression class \s
Whitespace == {SP, NL, TAB}

UpperSeq ==
    <<"A", "B", "C", "D", "E", "F", "G", "H", "I", "J", "K", "L", "M",
      "N", "O", "P", "Q", "R", "S", "T", "U", "V", "W", "X", "Y", "Z",
      "I_acute", "A_circ">>

LowerSeq ==
    <<"a", "b", "c", "d", "e", "f", "g", "h", "i", "j", "k", "l", "m",
      "n", "o", "p", "q", "r", "s", "t", "u", "v", "w", "x", "y", "z",
      "i_acute", "a_circ">>

\* str.lower() on one character
LowerChar(c) ==
    IF \E i \in 1..Len(UpperSeq) : UpperSeq[i] = c
    THEN LowerSeq[CHOOSE i \in 1..Len(UpperSeq) : UpperSeq[i] = c]
    ELSE c

\* str.lower()
Lower(s) == [i \in 1..Len(s) |-> LowerChar(s[i])]

DigitVal(c) == (CHOOSE i \in 1..10 : DigitSeq[i] = c) - 1

RECURSIVE ToInt(_)
\* int() of a sequence of decimal digits
ToInt(ds) ==
    IF Len(ds) = 0 THEN 0
    ELSE 10 * ToInt(SubSeq(ds, 1, Len(ds) - 1)) + DigitVal(ds[Len(ds)])

RECURSIVE LStrip(_)
LStrip(s) ==
    IF Len(s) > 0 /\ s[1] \in Whitespace THEN LStrip(Tail(s)) ELSE s

RECURSIVE RStrip(_)
RStrip(s) ==
    IF Len(s) > 0 /\ s[Len(s)] \in Whitespace
    THEN RStrip(SubSeq(s, 1, Len(s) - 1))
    ELSE s

\* str.strip()
Strip(s) == RStrip(LStrip(s))

\* str.replace(c, "")
Remove(s, c) == SelectSeq(s, LAMBDA x : x # c)

\* str.replace(c, d) for single characters
Replace(s, c, d) == [i \in 1..Len(s) |-> IF s[i] = c THEN d ELSE s[i]]

\* the Python operator  kw in line  on strings
Contains(line, kw) ==
    \E i \in 1..(Len(line) - Len(kw) + 1) :
        SubSeq(line, i, i + Len(kw) - 1) = kw

RECURSIVE Split(_, _)
\* str.split(c)
Split(s, c) ==
    IF \A i \in 1..Len(s) : s[i] # c
    THEN <<s>>
    ELSE LET k == CHOOSE i \in 1..Len(s) :
                      s[i] = c /\ \A j \in 1..(i - 1) : s[j] # c
         IN  <<SubSeq(s, 1, k - 1)>> \o Split(SubSeq(s, k + 1, Len(s)), c)

(***************************************************************************)
(* Regular expressions of ValueParser.VALUE_PATTERNS                       *)
(*                                                                         *)
(* A match is [start, end, group, rank]: the position of its first         *)
(* character, the position after its last one, group(1), and the order in  *)
(* which the backtracking matcher tries the alternatives that start at the *)
(* same position (larger is tried first).                                  *)
(***************************************************************************)
CharAt(s, i, set) == i >= 1 /\ i <= Len(s) /\ s[i] \in set

\* \d{n} at position i
DigitsAt(s, i, n) ==
    i >= 1 /\ i + n - 1 <= Len(s) /\ \A j \in i..(i + n - 1) : s[j] \in Digits

\* (?:\.\d{3}){g} at position p
GroupsAt(s, p, g) ==
    \A m \in 0..(g - 1) :
        CharAt(s, p + 4 * m, {"."}) /\ DigitsAt(s, p + 4 * m + 1, 3)

\* ,\d{2} at position p
CentsAt(s, p) == CharAt(s, p, {","}) /\ DigitsAt(s, p + 1, 2)

\* \d{1,kmax}(?:\.\d{3}){gmin,gmax},\d{2} at position b: the pairs <<k, g>> of
\* the number of leading digits and of thousands groups for which it matches
AmountBodies(s, b, kmax, gmin, gmax) ==
    {kg \in (1..kmax) \X (gmin..gmax) :
        /\ DigitsAt(s, b, kg[1])
        /\ GroupsAt(s, b + kg[1], kg[2])
        /\ CentsAt(s, b + kg[1] + 4 * kg[2])}

BodyEnd(b, kg) == b + kg[1] + 4 * kg[2] + 3

\* (?:\s) at position i, the group without its ^ alternative
Leads_NoAnchor(s, i) ==
    IF CharAt(s, i, Whitespace) THEN {<<0, i + 1>>} ELSE {}

\* (?:^|\s) at position i: <<alternative, position after it>>, ^ tried first
Leads(s, i) ==
    (IF i = 1 THEN {<<1, i>>} ELSE {})
        \cup (IF CharAt(s, i, Whitespace) THEN {<<0, i + 1>>} ELSE {})

\* (?:\s|$) at position e: the positions after it.  $ also matches before a
\* final newline, where \s, tried first, matches that newline.
Trails(s, e) ==
    (IF CharAt(s, e, Whitespace) THEN {e + 1} ELSE {})
        \cup (IF e = Len(s) + 1 THEN {e} ELSE {})

Rank(s, lead, w, kg) ==
    ((lead * (Len(s) + 1) + w) * 5 + kg[1]) * (Len(s) + 1) + kg[2]

MkMatch(s, i, b, e, kg, lead, w) ==
    [start |-> i, end |-> e, group |-> SubSeq(s, b, BodyEnd(b, kg) - 1),
     rank |-> Rank(s, lead, w, kg)]

\* R[\$S]\s*(\d{1,3}(?:\.\d{3})*,\d{2})   with re.IGNORECASE
CurrencyMatchesAt(s, i) ==
    IF ~(CharAt(s, i, {"R", "r"}) /\ CharAt(s, i + 1, {"$", "S", "s"}))
    THEN {}
    ELSE UNION {
        {MkMatch(s, i, i + 2 + w, BodyEnd(i + 2 + w, kg), kg, 0, w) :
            kg \in AmountBodies(s, i + 2 + w, 3, 0, Len(s) \div 4)} :
        w \in {n \in 0..Len(s) :
                  \A j \in (i + 2)..(i + 1 + n) : CharAt(s, j, Whitespace)}}

\* (?:^|\s)(\d{1,kmax}(?:\.\d{3}){gmin,gmax},\d{2})(?:\s|$)
BareMatchesAt(s, i, kmax, gmin, gmax) ==
    UNION {UNION {
        {MkMatch(s, i, ld[2], e, kg, ld[1], 0) : e \in Trails(s, BodyEnd(ld[2], kg))} :
            kg \in AmountBodies(s, ld[2], kmax, gmin, gmax)} :
        ld \in Leads(s, i)}

\* VALUE_PATTERNS[p - 1] tried at position i
MatchesAt(p, s, i) ==
    CASE p = 1 -> CurrencyMatchesAt(s, i)
      [] p = 2 -> BareMatchesAt(s, i, 3, 1, Len(s) \div 4)
      [] p = 3 -> BareMatchesAt(s, i, 4, 0, 0)

NumPatterns == 3

\* the match the backtracking matcher reports at position i
MatchAt(p, s, i) ==
    LET C == MatchesAt(p, s, i)
    IN  CHOOSE m \in C : \A n \in C : m.rank > n.rank \/ (m.rank = n.rank /\ m.end >= n.end)

\* re.search(pattern, s) from position pos on: the leftmost match, or None
SearchFrom(p, s, pos) ==
    LET I == {i \in pos..Len(s) : MatchesAt(p, s, i) # {}}
    IN  IF I = {} THEN None
        ELSE Some(MatchAt(p, s, CHOOSE i \in I : \A j \in I : i <= j))

Search(p, s) == SearchFrom(p, s, 1)

RECURSIVE FindFrom(_, _, _)
FindFrom(p, s, pos) ==
    LET m == SearchFrom(p, s, pos)
    IN  IF m = None THEN <<>> ELSE m \o FindFrom(p, s, m[1].end)

\* re.finditer(pattern, s): the non-overlapping matches, left to right
FindIter(p, s) == FindFrom(p, s, 1)

(***************************************************************************)
(* ValueParser                                                             *)
(***************************************************************************)
\* ValueParser.TOTAL_KEYWORDS
TOTAL_KEYWORDS ==
    << <<"t", "o", "t", "a", "l">>,
       <<"v", "a", "l", "o", "r", " ", "t", "o", "t", "a", "l">>,
       <<"t", "o", "t", "a", "l", " ", "g", "e", "r", "a", "l">>,
       <<"t", "o", "t", "a", "l", " ", "a", " ", "p", "a", "g", "a", "r">>,
       <<"t", "o", "t", "a", "l", " ", "l", "i_acute", "q", "u", "i", "d", "o">>,
       <<"v", "a", "l", "o", "r">>,
       <<"v", "l", "r">>,
       <<"v", "l", " ", "t", "o", "t", "a", "l">>,
       <<"s", "o", "m", "a">>,
       <<"i", "m", "p", "o", "r", "t", "a_circ", "n", "c", "i", "a">>,
       <<"l", "i", "q", "u", "i", "d", "o">>,
       <<"l", "i_acute", "q", "u", "i", "d", "o">> >>

\* Decimal(d) for the plain syntax  digits [. digits]  with at most two
\* fraction digits, in cents; None stands for InvalidOperation.  A longer
\* fraction is outside the cents representation.
DecimalCents(d) ==
    LET dots == {i \in 1..Len(d) : d[i] = "."}
        k    == IF dots = {} THEN Len(d) + 1 ELSE CHOOSE i \in dots : TRUE
        ip   == SubSeq(d, 1, k - 1)
        fp   == SubSeq(d, k + 1, Len(d))
    IN  IF \/ Cardinality(dots) > 1
           \/ Len(ip) + Len(fp) = 0
           \/ \E i \in 1..Len(ip) : ip[i] \notin Digits
           \/ \E i \in 1..Len(fp) : fp[i] \notin Digits
        THEN None
        ELSE CASE Len(fp) = 0 -> Some(100 * ToInt(ip))
               [] Len(fp) = 1 -> Some(100 * ToInt(ip) + 10 * ToInt(fp))
               [] Len(fp) = 2 -> Some(100 * ToInt(ip) + ToInt(fp))
               [] OTHER       -> Some("more than two decimal places")

\* ValueParser._parse_brazilian_currency
ParseBrazilianCurrency(value_str) ==
    DecimalCents(Replace(Remove(Strip(value_str), "."), ",", "."))

\* truth value of an Optional[Decimal]: None and Decimal(0) are false
Truthy(value) == value # None /\ value[1] # 0

\* _is_valid_value without the upper limit
IsValidValue_NoCeiling(value) ==
    IF value <= 0 THEN FALSE
    ELSE IF value < 1 THEN FALSE
    ELSE TRUE

\* ValueParser._is_valid_value, on cents
IsValidValue(value) ==
    IF value <= 0 THEN FALSE
    ELSE IF value < 1 \/ value > 100000000 THEN FALSE
    ELSE TRUE

\* the values appended by the loop of _find_all_values for one pattern
PatternValues(p, t) ==
    LET ms == FindIter(p, t)
    IN  {v \in {ParseBrazilianCurrency(ms[i].group) : i \in 1..Len(ms)} :
            Truthy(v) /\ IsValidValue(v[1])}

\* ValueParser._find_all_values: list(set(values)), a set of cents
FindAllValues(t) ==
    {v[1] : v \in UNION {PatternValues(p, t) : p \in 1..NumPatterns}}

\* ValueParser.extract_all_values
ExtractAllValues(t) == FindAllValues(t)

HasKeyword(line) ==
    \E i \in 1..Len(TOTAL_KEYWORDS) : Contains(line, TOTAL_KEYWORDS[i])

RECURSIVE LinePatterns(_, _, _)
\* the loop over VALUE_PATTERNS in _find_total_value for one line, from pattern p
LinePatterns(line, values, p) ==
    IF p > NumPatterns THEN None
    ELSE LET m == Search(p, line)
             value == IF m = None THEN None ELSE ParseBrazilianCurrency(m[1].group)
         IN  IF m # None /\ Truthy(value) /\ value[1] \in values
             THEN value
             ELSE LinePatterns(line, values, p + 1)

RECURSIVE ScanLines(_, _)
\* the loop over the lines in _find_total_value
ScanLines(lines, values) ==
    IF Len(lines) = 0 THEN None
    ELSE IF ~HasKeyword(Head(lines)) THEN ScanLines(Tail(lines), values)
    ELSE LET v == LinePatterns(Head(lines), values, 1)
         IN  IF v # None THEN v ELSE ScanLines(Tail(lines), values)

\* ValueParser._find_total_value
FindTotalValue(t, values) ==
    IF values = {} THEN None
    ELSE ScanLines(Split(Lower(t), NL), values)

Max(S) == CHOOSE x \in S : \A y \in S : x >= y

\* extract_value returning Decimal(0) where it returns None
ExtractValue_ZeroForAbsent(t) ==
    LET values == FindAllValues(t)
        total  == FindTotalValue(t, values)
    IN  IF values = {} THEN Some(0)
        ELSE IF Truthy(total) THEN total
        ELSE Some(Max(values))

\* ValueParser.extract_value
ExtractValue(t) ==
    LET values == FindAllValues(t)
        total  == FindTotalValue(t, values)
    IN  IF values = {} THEN None
        ELSE IF Truthy(total) THEN total
        ELSE Some(Max(values))

(***************************************************************************)
(* parse_value, format_brl and parse_brl                                   *)
(*                                                                         *)
(* A call ends [kind, value, exc]: it returned an Optional[Decimal] or it  *)
(* raised.                                                                 *)
(***************************************************************************)
NotCalled        == [kind |-> "none", value |-> None, exc |-> ""]
CallReturned(v)  == [kind |-> "returned", value |-> v, exc |-> ""]
CallRaised(e)    == [kind |-> "raised", value |-> None, exc |-> e]

RECURSIVE ParseValueFrom(_, _)
\* the loop over VALUE_PATTERNS in parse_value from pattern p, then the direct
\* parsing
ParseValueFrom(vs, p) ==
    IF p > NumPatterns THEN ParseBrazilianCurrency(vs)
    ELSE LET m == Search(p, vs)
         IN  IF m # None THEN ParseBrazilianCurrency(m[1].group)
             ELSE ParseValueFrom(vs, p + 1)

\* ValueParser.parse_value
ParseValue(vs) == CallReturned(ParseValueFrom(vs, 1))

DigitChar(n) == DigitSeq[n + 1]

RECURSIVE IntToDigits(_)
\* str(n) for n >= 0
IntToDigits(n) ==
    IF n < 10 THEN <<DigitChar(n)>>
    ELSE Append(IntToDigits(n \div 10), DigitChar(n % 10))

RECURSIVE Grouped(_)
\* the ',' option of the format specification: groups of three digits
Grouped(ds) ==
    IF Len(ds) <= 3 THEN ds
    ELSE Grouped(SubSeq(ds, 1, Len(ds) - 3)) \o <<",">>
             \o SubSeq(ds, Len(ds) - 2, Len(ds))

\* f"{value:,.2f}" for a Decimal of cents / 100
FormatFixed(cents) ==
    Grouped(IntToDigits(cents \div 100))
        \o <<".", DigitChar((cents % 100) \div 10), DigitChar(cents % 10)>>

\* format_brl: "TEMP" is one element of the sequence while it stands in
FormatBrl(cents) ==
    <<"R", "$", SP>>
        \o Replace(Replace(Replace(FormatFixed(cents), ",", "TEMP"), ".", ","),
                   "TEMP", ".")

RECURSIVE RemoveSub(_, _)
\* s.replace(sub, "")
RemoveSub(s, sub) ==
    IF Len(s) < Len(sub) THEN s
    ELSE IF SubSeq(s, 1, Len(sub)) = sub
         THEN RemoveSub(SubSeq(s, Len(sub) + 1, Len(s)), sub)
    ELSE <<Head(s)>> \o RemoveSub(Tail(s), sub)

\* parse_brl that keeps the thousands separators
ParseBrl_KeepsDots(value) ==
    LET cleaned == Strip(Remove(RemoveSub(value, <<"R", "$">>), SP))
        d == DecimalCents(Replace(cleaned, ",", "."))
    IN  IF d = None THEN CallRaised("ValueError") ELSE CallReturned(d)

\* parse_brl: Decimal(cleaned), any exception of which becomes ValueError
ParseBrl(value) ==
    LET cleaned == Strip(Remove(RemoveSub(value, <<"R", "$">>), SP))
        d == DecimalCents(Replace(Remove(cleaned, "."), ",", "."))
    IN  IF d = None THEN CallRaised("ValueError") ELSE CallReturned(d)

CurrencyIdle ==
    /\ brl_str = <<>>
    /\ amount = None
    /\ parsed = [parse_value |-> NotCalled, parse_brl |-> NotCalled]

Elements(values) == {values[i] : i \in 1..Len(values)}

\* the lists that hold each element of S once
Orders(S) ==
    {f \in [1..Cardinality(S) -> S] :
        \A i, j \in 1..Cardinality(S) : i # j => f[i] # f[j]}

\* the list  values  kept from the call before
ValuesAtEntry_Kept(left) == left

\* values = []  at the entry of _find_all_values, whatever an earlier call left
ValuesAtEntry(left) == <<>>

\* _find_all_values: list(set(values)) holds the values in an order that the
\* hash table decides
FindAllValuesLists(t, left) ==
    Orders(Elements(ValuesAtEntry(left)) \cup FindAllValues(t))

\* max(values)
MaxOfList(values) == Max(Elements(values))

\* extract_value from the list  values  on
ExtractValueOn(t, values) ==
    IF Len(values) = 0 THEN None
    ELSE LET total == FindTotalValue(t, Elements(values))
         IN  IF Truthy(total) THEN total ELSE Some(MaxOfList(values))

(***************************************************************************)
(* calculate_confidence                                                    *)
(***************************************************************************)
RECURSIVE Sum(_)
Sum(xs) == IF Len(xs) = 0 THEN 0 ELSE Head(xs) + Sum(Tail(xs))

Min2(a, b) == IF a <= b THEN a ELSE b

\* the quotients q for which round((q + 0.5) / 100.0, 2) is (q + 1) / 100: the
\* double nearest to q.5 / 100 lies above the decimal tie for these q, below it
\* for the others
TieRoundsUp ==
    {0, 2, 3, 5, 6, 8, 9, 11, 13, 16, 19, 22, 25, 26, 27, 31, 32, 33, 37, 38,
     39, 40, 44, 45, 46, 50, 51, 52, 53, 54, 55, 63, 64, 65, 66, 67, 68, 75,
     76, 77, 78, 79, 80, 87, 88, 89, 90, 91, 92, 93}

\* the loop of calculate_confidence over zip(confidences, texts) from index i on
RECURSIVE ValidConfidencesFrom(_, _, _)
ValidConfidencesFrom(confidences, texts, i) ==
    IF i > Min2(Len(confidences), Len(texts)) THEN <<>>
    ELSE IF Len(texts[i]) = 0 \/ Len(Strip(texts[i])) = 0
         THEN ValidConfidencesFrom(confidences, texts, i + 1)
    ELSE IF confidences[i] = -1
         THEN ValidConfidencesFrom(confidences, texts, i + 1)
    ELSE <<confidences[i]>> \o ValidConfidencesFrom(confidences, texts, i + 1)

\* the loop counting a token without confidence data as confidence 0
ValidConfidences_NoDataAsZero(confidences, texts) ==
    LET n == Min2(Len(confidences), Len(texts))
        kept[i \in 0..n] ==
            IF i = 0 THEN <<>>
            ELSE IF Len(texts[i]) = 0 \/ Len(Strip(texts[i])) = 0 THEN kept[i - 1]
            ELSE IF confidences[i] = -1 THEN Append(kept[i - 1], 0)
            ELSE Append(kept[i - 1], confidences[i])
    IN  kept[n]

\* the loop skipping empty texts only, not whitespace-only ones
ValidConfidences_KeepsBlank(confidences, texts) ==
    LET n == Min2(Len(confidences), Len(texts))
        kept[i \in 0..n] ==
            IF i = 0 THEN <<>>
            ELSE IF Len(texts[i]) = 0 THEN kept[i - 1]
            ELSE IF confidences[i] = -1 THEN kept[i - 1]
            ELSE Append(kept[i - 1], confidences[i])
    IN  kept[n]

ValidConfidences(confidences, texts) == ValidConfidencesFrom(confidences, texts, 1)

\* round(max(0.0, min(1.0, (total / n) / 100.0)), 2), in hundredths
RoundNormalized(total, n) ==
    IF total <= 0 THEN 0
    ELSE IF total >= 100 * n THEN 100
    ELSE LET q == total \div n
             r == total % n
         IN  IF 2 * r < n THEN q
             ELSE IF 2 * r > n THEN q + 1
             ELSE IF q \in TieRoundsUp THEN q + 1 ELSE q

\* calculate_confidence, in hundredths
CalculateConfidence(data) ==
    IF Len(data.conf) = 0 \/ Len(data.text) = 0 THEN 0
    ELSE LET valid_confidences == ValidConfidences(data.conf, data.text)
         IN  IF Len(valid_confidences) = 0 THEN 0
             ELSE RoundNormalized(Sum(valid_confidences), Len(valid_confidences))

(***************************************************************************)
(* calculate_confidence on arbitrary arguments                             *)
(*                                                                         *)
(* An entry of 'conf' is an int, a numeric string, another string, None or *)
(* the float nan; an entry of 'text' is a string, None or a non-zero int.  *)
(* A missing key reads as the empty list of ocr_data.get(key, []).         *)
(***************************************************************************)
ConfInt(n)    == [kind |-> "int", num |-> n]
ConfNumStr(n) == [kind |-> "numstr", num |-> n]
ConfStr       == [kind |-> "str", num |-> 0]
ConfNone      == [kind |-> "none", num |-> 0]
ConfNaN       == [kind |-> "nan", num |-> 0]

TextStr(cs) == [kind |-> "str", chars |-> cs]
TextNone    == [kind |-> "none", chars |-> <<>>]
TextInt     == [kind |-> "int", chars |-> <<>>]

\* if not text or not text.strip(): text.strip() raises for a non-string
TextStep(t) ==
    IF t.kind = "none" THEN "skip"
    ELSE IF t.kind = "int" THEN "AttributeError"
    ELSE IF Len(t.chars) = 0 \/ Len(Strip(t.chars)) = 0 THEN "skip"
    ELSE "keep"

\* if conf == -1: continue; valid_confidences.append(float(conf))
ConfStep(c) ==
    IF c.kind = "int" /\ c.num = -1 THEN "skip"
    ELSE IF c.kind = "str" THEN "ValueError"
    ELSE IF c.kind = "none" THEN "TypeError"
    ELSE "keep"

NoRaise == ""

\* the loop over zip(confidences, texts) from index i on: the exception it
\* raises, or the floats appended and whether nan is among them
RECURSIVE RawLoopFrom(_, _, _)
RawLoopFrom(confidences, texts, i) ==
    IF i > Min2(Len(confidences), Len(texts))
    THEN [exc |-> NoRaise, vals |-> <<>>, nan |-> FALSE]
    ELSE LET ts   == TextStep(texts[i])
             cs   == ConfStep(confidences[i])
             rest == RawLoopFrom(confidences, texts, i + 1)
         IN  IF ts = "skip" THEN rest
             ELSE IF ts # "keep" THEN [exc |-> ts, vals |-> <<>>, nan |-> FALSE]
             ELSE IF cs = "skip" THEN rest
             ELSE IF cs # "keep" THEN [exc |-> cs, vals |-> <<>>, nan |-> FALSE]
             ELSE IF rest.exc # NoRaise THEN rest
             ELSE IF confidences[i].kind = "nan"
                  THEN [exc |-> NoRaise, vals |-> rest.vals, nan |-> TRUE]
             ELSE [exc |-> NoRaise, vals |-> <<confidences[i].num>> \o rest.vals,
                   nan |-> rest.nan]

NoOutcome      == [kind |-> "none", exc |-> NoRaise, value |-> 0]
RawReturned(v) == [kind |-> "returned", exc |-> NoRaise, value |-> v]
RawRaised(e)   == [kind |-> "raised", exc |-> e, value |-> 0]

\* the try block of calculate_confidence; with nan among the floats the sum is
\* nan and max(0.0, min(1.0, nan)) is 1.0
CalculateConfidenceBody(d) ==
    IF Len(d.conf) = 0 \/ Len(d.text) = 0 THEN RawReturned(0)
    ELSE LET l == RawLoopFrom(d.conf, d.text, 1)
         IN  IF l.exc # NoRaise THEN RawRaised(l.exc)
             ELSE IF l.nan THEN RawReturned(100)
             ELSE IF Len(l.vals) = 0 THEN RawReturned(0)
             ELSE RawReturned(RoundNormalized(Sum(l.vals), Len(l.vals)))

\* the subclasses of Exception the try block can raise
ExceptionSubclasses == {"ValueError", "TypeError", "AttributeError"}

\* calculate_confidence with an except clause for ValueError only
CalculateConfidenceRaw_CatchesValueError(d) ==
    LET b == CalculateConfidenceBody(d)
    IN  IF b.kind = "raised" /\ b.exc = "ValueError" THEN RawReturned(0) ELSE b

\* calculate_confidence: except Exception returns 0.0
CalculateConfidenceRaw(d) ==
    LET b == CalculateConfidenceBody(d)
    IN  IF b.kind = "raised" /\ b.exc \in ExceptionSubclasses THEN RawReturned(0)
        ELSE b

RawIdle ==
    /\ raw = [conf |-> <<>>, text |-> <<>>]
    /\ outcome = NoOutcome

(***************************************************************************)
(* Exceptions                                                              *)
(*                                                                         *)
(* An exception is [type, code, status_code, message, details]; str(e) and *)
(* the details are tuples of strings.                                      *)
(***************************************************************************)
NoException ==
    [type |-> "", code |-> "", status_code |-> 0, message |-> "", details |-> <<>>]

\* OCRProcessingException(details=...), a ValidationException (422)
OCRProcessingException(details) ==
    [type |-> "OCRProcessingException", code |-> "OCR_PROCESSING_FAILED",
     status_code |-> 422, message |-> "OCR processing failed", details |-> details]

\* an exception that is not an AppException, with its message
BuiltinException(type, message) ==
    [type |-> type, code |-> "", status_code |-> 0, message |-> message,
     details |-> <<>>]

\* ReceiptNotFoundException, a NotFoundException (404)
ReceiptNotFoundException ==
    [type |-> "ReceiptNotFoundException", code |-> "RECEIPT_NOT_FOUND",
     status_code |-> 404, message |-> "Receipt not found", details |-> <<>>]

\* InvalidFileTypeException, a BadRequestException (400)
InvalidFileTypeException ==
    [type |-> "InvalidFileTypeException", code |-> "INVALID_FILE_TYPE",
     status_code |-> 400, message |-> "Invalid file type", details |-> <<>>]

\* FileTooLargeException, a BadRequestException (400)
FileTooLargeException ==
    [type |-> "FileTooLargeException", code |-> "FILE_TOO_LARGE",
     status_code |-> 400, message |-> "File size exceeds maximum allowed",
     details |-> <<>>]

\* InvalidImageException, a ValidationException (422)
InvalidImageException ==
    [type |-> "InvalidImageException", code |-> "INVALID_IMAGE",
     status_code |-> 422, message |-> "Invalid image file", details |-> <<>>]

\* StorageUploadException, a ValidationException (422)
StorageUploadException ==
    [type |-> "StorageUploadException", code |-> "STORAGE_UPLOAD_FAILED",
     status_code |-> 422, message |-> "Failed to upload file", details |-> <<>>]

\* AppException.__str__ is "[code] message"; Exception.__str__ is the message
Str(e) == IF e.code # "" THEN <<e.code, e.message>> ELSE <<e.message>>

(***************************************************************************)
(* OCRExtractor                                                            *)
(***************************************************************************)
MinTextLength == 10

\* OCRExtractor._extract_text on what the engine did (o.kind): "ok" with the
\* text and the token data, "not_found" (TesseractNotFoundError), "timeout"
\* (pytesseract raises RuntimeError after OCR_TIMEOUT_SECONDS) or "error"
\* (any other exception of Image.open or of the engine)
ExtractText(o) ==
    CASE o.kind = "ok" ->
            [kind |-> "return", text |-> o.text,
             confidence |-> CalculateConfidence(o.data), exc |-> NoException]
      [] o.kind = "not_found" ->
            [kind |-> "raise", text |-> <<>>, confidence |-> 0,
             exc |-> OCRProcessingException(<<"Tesseract OCR not found">>)]
      [] o.kind = "timeout" ->
            [kind |-> "raise", text |-> <<>>, confidence |-> 0,
             exc |-> BuiltinException("RuntimeError", "Tesseract process timeout")]
      [] o.kind = "error" ->
            [kind |-> "raise", text |-> <<>>, confidence |-> 0,
             exc |-> BuiltinException("TesseractError", "engine failure")]

\* the except clauses of extract_receipt_data
WrapException(e) ==
    IF e.type = "OCRProcessingException" THEN e
    ELSE OCRProcessingException(Str(e))

\* the length check on the untrimmed text
InsufficientText_Untrimmed(t) == Len(t) = 0 \/ Len(t) < MinTextLength

\* if not text or len(text.strip()) < 10
InsufficientText(t) == Len(t) = 0 \/ Len(Strip(t)) < MinTextLength

NoExtraction ==
    [kind |-> "none", text |-> <<>>, value |-> None, confidence |-> 0,
     exc |-> NoException]

Raised(e) ==
    [kind |-> "exception", text |-> <<>>, value |-> None, confidence |-> 0,
     exc |-> e]

\* the dictionary with the value withheld below the acceptable confidence
Returned_DropsLowConfidence(t, confidence) ==
    [kind |-> "result", text |-> Strip(t),
     value |-> IF confidence >= 70 THEN ExtractValue(t) ELSE None,
     confidence |-> confidence, exc |-> NoException]

\* the dictionary extract_receipt_data returns
Returned(t, confidence) ==
    [kind |-> "result", text |-> Strip(t), value |-> ExtractValue(t),
     confidence |-> confidence, exc |-> NoException]

\* extract_receipt_data as a function of what the engine did
ExtractReceiptData(o) ==
    LET r == ExtractText(o)
    IN  IF r.kind = "raise" THEN Raised(WrapException(r.exc))
        ELSE IF InsufficientText(r.text)
             THEN Raised(WrapException(
                      OCRProcessingException(<<"Insufficient text extracted">>)))
        ELSE Returned(r.text, r.confidence)

\* extract_text_only as a function of what the engine did: it has no except
\* clause and no length check, and returns the trimmed text alone
ExtractTextOnly(o) ==
    LET r == ExtractText(o)
    IN  IF r.kind = "raise" THEN Raised(r.exc)
        ELSE [kind |-> "result", text |-> Strip(r.text), value |-> None,
              confidence |-> 0, exc |-> NoException]

(***************************************************************************)
(* Receipts endpoints and the background OCR task                          *)
(***************************************************************************)
MaxUploads == 2

Tasks == 1..MaxUploads

\* ocr_result["confidence"] >= 0.7, in hundredths
ConfidenceThreshold == 70

NoEngine == [kind |-> "none", text |-> <<>>, data |-> [conf |-> <<>>, text |-> <<>>]]

ET_Empty  == <<>>
ET_Padded == <<SP, SP, SP, "1", "2", "5", ",", "5", "0", SP, NL, NL>>
ET_Nine   == <<"0", ",", "0", "0", SP, "0", ",", "0", "0">>
ET_Ten    == <<"0", ",", "0", "0", SP, SP, "0", ",", "0", "0">>
ET_Total  == <<"T", "o", "t", "a", "l", SP, "1", "2", "5", ",", "5", "0">>

\* recognized texts: empty, 12 characters of which 6 remain after trimming,
\* 9 and 10 characters without a valid amount, 12 characters with an amount
EngineTexts == {ET_Empty, ET_Padded, ET_Nine, ET_Ten, ET_Total}

\* token data scoring 0.95, 0.70, 0.62 and 0.0
EngineDatas ==
    {[conf |-> <<c>>, text |-> << <<"a">> >>] : c \in {95, 70, 62, -1}}

EngineOutcomes ==
    {[kind |-> "ok", text |-> t, data |-> d] : t \in EngineTexts, d \in EngineDatas}
        \cup {[kind |-> k, text |-> <<>>, data |-> NoEngine.data] :
                 k \in {"not_found", "timeout", "error"}}

\* image bytes: an upload that decodes, an upload that passed validation but
\* does not decode, and the PNG bytes preprocess_image produces
ImageDatas == {"jpeg", "truncated"}

Decodable(bytes) == bytes \in {"jpeg", "png"}

NoImage == [data |-> "", step_failed |-> FALSE, pre |-> "", seen |-> ""]

\* preprocess_image returning nothing when a step fails
PreprocessImage_EmptyOnFailure(image_data, step_fails) ==
    IF step_fails THEN "" ELSE "png"

\* OCRPreprocessor.preprocess_image: the PNG bytes, or the original bytes when
\* a step raised
PreprocessImage(image_data, step_fails) ==
    IF step_fails THEN image_data ELSE "png"

\* what _extract_text can meet on the bytes it is given: bytes that do not
\* decode make Image.open or the engine's reading of the image raise
OutcomesFor(bytes) ==
    IF Decodable(bytes) THEN EngineOutcomes
    ELSE {o \in EngineOutcomes : o.kind = "error"}

NoHistory == [engine |-> 0, raised |-> 0, error_writes |-> 0, result_writes |-> 0]

\* an exception raised by a repository call (BaseRepository re-raises)
RepositoryError == BuiltinException("APIError", "repository call failed")

InitialReceipt(value) ==
    [status |-> "pending", value |-> value, image_url |-> None,
     thumbnail_url |-> None, ocr_text |-> None, ocr_confidence |-> None,
     ocr_error |-> None]

\* BaseRepository.update: the fields of data replace those of the row
Update(row, data) == data @@ row

\* the first step of upload_receipt_image that fails, "none" when all succeed:
\* the lookup of the row for the caller, the four validations, the two uploads
\* and the signed URLs of StorageUploader.upload_image, the update of the row
UploadFaults ==
    {"none", "not_found", "bad_type", "too_large", "corrupt", "bad_dimensions",
     "original_upload", "thumbnail_upload", "signed_url", "update_raises"}

\* the exception the failing step raises inside the handler's try block
UploadRaises(fault) ==
    CASE fault = "none" -> NoException
      [] fault = "not_found" -> ReceiptNotFoundException
      [] fault = "bad_type" -> InvalidFileTypeException
      [] fault = "too_large" -> FileTooLargeException
      [] fault \in {"corrupt", "bad_dimensions"} -> InvalidImageException
      [] fault \in {"original_upload", "thumbnail_upload", "signed_url"} ->
             StorageUploadException
      [] fault = "update_raises" -> RepositoryError

\* the files upload_image has put into the bucket when the request ends
StoredBy(fault) ==
    CASE fault = "thumbnail_upload" -> {"original"}
      [] fault \in {"signed_url", "update_raises", "none"} -> {"original", "thumbnail"}
      [] OTHER -> {}

\* the status code of the response:  except ReceiptNotFoundException: raise
\* hands the exception to app_exception_handler, which answers with its
\* status_code;  except Exception  raises HTTPException(500)
HandlerStatus(e) ==
    IF e = NoException THEN 200
    ELSE IF e.type = "ReceiptNotFoundException" THEN e.status_code
    ELSE 500

\* the first step of delete_receipt that fails
DeleteFaults == {"none", "not_found", "delete_raises"}

DeleteRaises(fault) ==
    CASE fault = "none" -> NoException
      [] fault = "not_found" -> ReceiptNotFoundException
      [] fault = "delete_raises" -> RepositoryError

NoRequest == [op |-> "", fault |-> "", status |-> 0]

ApiIdle ==
    /\ http = NoRequest
    /\ storage = {}
    /\ exists = TRUE

NoCall == [step_failed |-> FALSE, eng |-> NoEngine, reply |-> NoExtraction]

ExtractorIdle ==
    xcall = [image |-> "", extract_receipt_data |-> NoCall, extract_text_only |-> NoCall]

PipelineIdle ==
    /\ receipt = InitialReceipt(Some(0))
    /\ uploads = 0
    /\ pc = [t \in Tasks |-> "idle"]
    /\ eng = [t \in Tasks |-> NoEngine]
    /\ ext = [t \in Tasks |-> NoExtraction]
    /\ upd = [t \in Tasks |-> <<>>]
    /\ caught = [t \in Tasks |-> NoException]
    /\ loop = 0
    /\ img = [t \in Tasks |-> NoImage]
    /\ hist = [t \in Tasks |-> NoHistory]

\* upload_receipt_image writing the record before the image is stored
HandleUpload_UpdatesBeforeStorage(fault, image_data) ==
    /\ loop = 0
    /\ ~exists => fault = "not_found"
    /\ uploads < MaxUploads
    /\ storage' = storage \cup StoredBy(fault)
    /\ http' = [op |-> "upload", fault |-> fault,
                status |-> HandlerStatus(UploadRaises(fault))]
    /\ IF fault \in {"none", "original_upload", "thumbnail_upload", "signed_url"}
       THEN /\ uploads' = uploads + 1
            /\ receipt' = Update(receipt,
                                 [image_url |-> Some(uploads + 1),
                                  thumbnail_url |-> Some(uploads + 1),
                                  status |-> "processing"])
            /\ pc' = [pc EXCEPT ![uploads + 1] = "scheduled"]
            /\ img' = [img EXCEPT ![uploads + 1] = [NoImage EXCEPT !.data = image_data]]
       ELSE UNCHANGED <<receipt, uploads, pc, img>>
    /\ UNCHANGED <<eng, ext, upd, caught, loop, hist, exists>>
    /\ UNCHANGED <<parserVars, scorerVars, rawVars, currencyVars, extractorVars>>

\* upload_receipt_image on a request whose first failing step is fault.  The
\* handler makes no call that suspends it once the file is read, so it runs
\* while no task occupies the event loop; the row is updated and the task is
\* added only when no step fails
HandleUpload(fault, image_data) ==
    /\ loop = 0
    /\ ~exists => fault = "not_found"
    /\ fault = "none" => uploads < MaxUploads
    /\ storage' = storage \cup StoredBy(fault)
    /\ http' = [op |-> "upload", fault |-> fault,
                status |-> HandlerStatus(UploadRaises(fault))]
    /\ IF fault = "none"
       THEN /\ uploads' = uploads + 1
            /\ receipt' = Update(receipt,
                                 [image_url |-> Some(uploads + 1),
                                  thumbnail_url |-> Some(uploads + 1),
                                  status |-> "processing"])
            /\ pc' = [pc EXCEPT ![uploads + 1] = "scheduled"]
            /\ img' = [img EXCEPT ![uploads + 1] = [NoImage EXCEPT !.data = image_data]]
       ELSE UNCHANGED <<receipt, uploads, pc, img>>
    /\ UNCHANGED <<eng, ext, upd, caught, loop, hist, exists>>
    /\ UNCHANGED <<parserVars, scorerVars, rawVars, currencyVars, extractorVars>>

\* upload_receipt_image on a request every step of which succeeds
UploadReceiptImage ==
    \E image_data \in ImageDatas : HandleUpload("none", image_data)

\* upload_receipt_image on any request
UploadRequest ==
    \E fault \in UploadFaults, image_data \in ImageDatas :
        HandleUpload(fault, image_data)

\* delete_receipt: the row is looked up for the caller and deleted; the
\* handler makes no call to the storage
DeleteReceipt ==
    /\ loop = 0
    /\ \E fault \in DeleteFaults :
          /\ ~exists => fault = "not_found"
          /\ http' = [op |-> "delete", fault |-> fault,
                      status |-> HandlerStatus(DeleteRaises(fault))]
          /\ exists' = IF fault = "none" THEN FALSE ELSE exists
    /\ UNCHANGED <<storage, pipeVars>>
    /\ UNCHANGED <<parserVars, scorerVars, rawVars, currencyVars, extractorVars>>

\* BackgroundTasks runs process_ocr_background, a coroutine, on the event loop
StartTask(t) ==
    /\ loop = 0
    /\ pc[t] = "scheduled"
    /\ pc' = [pc EXCEPT ![t] = "preprocessing"]
    /\ loop' = t
    /\ UNCHANGED <<receipt, uploads, eng, ext, upd, caught, img, hist>>
    /\ UNCHANGED <<parserVars, scorerVars, rawVars, currencyVars, apiVars, extractorVars>>

\* preprocessed = self.preprocessor.preprocess_image(image_data)
Preprocess(t) ==
    /\ loop = t
    /\ pc[t] = "preprocessing"
    /\ \E step_fails \in (IF Decodable(img[t].data) THEN BOOLEAN ELSE {TRUE}) :
          img' = [img EXCEPT ![t].step_failed = step_fails,
                             ![t].pre = PreprocessImage(img[t].data, step_fails)]
    /\ pc' = [pc EXCEPT ![t] = "recognizing"]
    /\ UNCHANGED <<receipt, uploads, eng, ext, upd, caught, loop, hist>>
    /\ UNCHANGED <<parserVars, scorerVars, rawVars, currencyVars, apiVars, extractorVars>>

\* text, confidence = await self._extract_text(preprocessed): the engine is
\* called synchronously inside the coroutine
Recognize(t) ==
    /\ loop = t
    /\ pc[t] = "recognizing"
    /\ \E o \in OutcomesFor(img[t].pre) :
          /\ eng' = [eng EXCEPT ![t] = o]
          /\ IF ExtractText(o).kind = "return"
             THEN /\ pc' = [pc EXCEPT ![t] = "recognized"]
                  /\ ext' = ext
                  /\ hist' = [hist EXCEPT ![t].engine = @ + 1]
             ELSE /\ pc' = [pc EXCEPT ![t] = "failed"]
                  /\ ext' = [ext EXCEPT ![t] = ExtractReceiptData(o)]
                  /\ hist' = [hist EXCEPT ![t].engine = @ + 1,
                                          ![t].raised = @ + 1]
    /\ img' = [img EXCEPT ![t].seen = img[t].pre]
    /\ UNCHANGED <<receipt, uploads, upd, caught, loop>>
    /\ UNCHANGED <<parserVars, scorerVars, rawVars, currencyVars, apiVars, extractorVars>>

\* a length check that lets every recognized text through to the parser
CheckLength_AlwaysParses(t) ==
    /\ loop = t
    /\ pc[t] = "recognized"
    /\ pc' = [pc EXCEPT ![t] = "parsing"]
    /\ UNCHANGED <<receipt, uploads, eng, ext, upd, caught, loop, img, hist>>
    /\ UNCHANGED <<parserVars, scorerVars, rawVars, currencyVars, apiVars, extractorVars>>

\* the check of the recognized text's length
CheckLength(t) ==
    /\ loop = t
    /\ pc[t] = "recognized"
    /\ IF InsufficientText(ExtractText(eng[t]).text)
       THEN /\ pc' = [pc EXCEPT ![t] = "failed"]
            /\ ext' = [ext EXCEPT ![t] = ExtractReceiptData(eng[t])]
            /\ hist' = [hist EXCEPT ![t].raised = @ + 1]
       ELSE /\ pc' = [pc EXCEPT ![t] = "parsing"]
            /\ ext' = ext
            /\ hist' = hist
    /\ UNCHANGED <<receipt, uploads, eng, upd, caught, loop, img>>
    /\ UNCHANGED <<parserVars, scorerVars, rawVars, currencyVars, apiVars, extractorVars>>

\* value = self.value_parser.extract_value(text) and the return
Parse(t) ==
    /\ loop = t
    /\ pc[t] = "parsing"
    /\ ext' = [ext EXCEPT ![t] = ExtractReceiptData(eng[t])]
    /\ pc' = [pc EXCEPT ![t] = "extracted"]
    /\ UNCHANGED <<receipt, uploads, eng, upd, caught, loop, img, hist>>
    /\ UNCHANGED <<parserVars, scorerVars, rawVars, currencyVars, apiVars, extractorVars>>

\* update_data of process_ocr_background without the value
OcrUpdate(ocr_result) ==
    [ocr_text |-> Some(ocr_result.text),
     ocr_confidence |-> Some(ocr_result.confidence),
     status |-> "processed"]

\* float(d) for a Decimal d of the given cents: the binary64 number nearest to
\* cents / 100, which is cents / 100 itself only when that is a multiple of 1/4.
\* A Decimal is the one-element tuple of its cents; a float carries a mark.
Float(d) ==
    <<d[1], IF d[1] % 25 = 0 THEN "binary64, exact" ELSE "binary64, nearest">>

IsDecimal(v) == Len(v) <= 1

\* update_data with the auto-filled value
OcrUpdateWithValue(ocr_result) ==
    [ocr_text |-> Some(ocr_result.text),
     ocr_confidence |-> Some(ocr_result.confidence),
     status |-> "processed",
     value |-> Float(ocr_result.value)]

\* process_ocr_background, lines 86-98: update_data is built; find_by_id is
\* called only for a value with enough confidence, and may raise
BuildUpdate(t) ==
    /\ loop = t
    /\ pc[t] = "extracted"
    /\ IF Truthy(ext[t].value) /\ ext[t].confidence >= ConfidenceThreshold
       THEN \/ /\ upd' = [upd EXCEPT ![t] =
                            IF ~Truthy(receipt.value)
                            THEN OcrUpdateWithValue(ext[t])
                            ELSE OcrUpdate(ext[t])]
               /\ pc' = [pc EXCEPT ![t] = "writing"]
               /\ caught' = caught
            \/ /\ caught' = [caught EXCEPT ![t] = RepositoryError]
               /\ pc' = [pc EXCEPT ![t] = "handling"]
               /\ upd' = upd
       ELSE /\ upd' = [upd EXCEPT ![t] = OcrUpdate(ext[t])]
            /\ pc' = [pc EXCEPT ![t] = "writing"]
            /\ caught' = caught
    /\ UNCHANGED <<receipt, uploads, eng, ext, loop, img, hist>>
    /\ UNCHANGED <<parserVars, scorerVars, rawVars, currencyVars, apiVars, extractorVars>>

\* await receipt_repo.update(receipt_id, update_data), which may raise; the
\* task's locals end with the task
WriteUpdate(t) ==
    /\ loop = t
    /\ pc[t] = "writing"
    /\ \/ /\ receipt' = Update(receipt, upd[t])
          /\ hist' = [hist EXCEPT ![t].result_writes = @ + 1]
          /\ pc' = [pc EXCEPT ![t] = "done"]
          /\ loop' = 0
          /\ upd' = [upd EXCEPT ![t] = <<>>]
          /\ eng' = [eng EXCEPT ![t] = NoEngine]
          /\ ext' = [ext EXCEPT ![t] = NoExtraction]
          /\ img' = [img EXCEPT ![t] = NoImage]
          /\ caught' = caught
       \/ /\ caught' = [caught EXCEPT ![t] = RepositoryError]
          /\ pc' = [pc EXCEPT ![t] = "handling"]
          /\ UNCHANGED <<receipt, loop, upd, eng, ext, img, hist>>
    /\ UNCHANGED uploads
    /\ UNCHANGED <<parserVars, scorerVars, rawVars, currencyVars, apiVars, extractorVars>>

\* the exception that reaches  except Exception as e  of process_ocr_background
CaughtException(t) == IF pc[t] = "failed" THEN ext[t].exc ELSE caught[t]

\* an except branch that writes the error and runs the recognition again
HandleError_Retries(t) ==
    /\ loop = t
    /\ pc[t] \in {"failed", "handling"}
    /\ receipt' = Update(receipt,
                         [status |-> "error",
                          ocr_error |-> Some(Str(CaughtException(t)))])
    /\ hist' = [hist EXCEPT ![t].error_writes = @ + 1]
    /\ pc' = [pc EXCEPT ![t] = "recognizing"]
    /\ caught' = [caught EXCEPT ![t] = NoException]
    /\ ext' = [ext EXCEPT ![t] = NoExtraction]
    /\ UNCHANGED <<uploads, upd, eng, img, loop>>
    /\ UNCHANGED <<parserVars, scorerVars, rawVars, currencyVars, apiVars, extractorVars>>

\* process_ocr_background, lines 104-114: the error update, whose own failure
\* is swallowed by  except: pass
HandleError(t) ==
    /\ loop = t
    /\ pc[t] \in {"failed", "handling"}
    /\ \/ /\ receipt' = Update(receipt,
                               [status |-> "error",
                                ocr_error |-> Some(Str(CaughtException(t)))])
          /\ hist' = [hist EXCEPT ![t].error_writes = @ + 1]
       \/ /\ receipt' = receipt
          /\ hist' = hist
    /\ img' = [img EXCEPT ![t] = NoImage]
    /\ caught' = [caught EXCEPT ![t] = NoException]
    /\ upd' = [upd EXCEPT ![t] = <<>>]
    /\ eng' = [eng EXCEPT ![t] = NoEngine]
    /\ ext' = [ext EXCEPT ![t] = NoExtraction]
    /\ pc' = [pc EXCEPT ![t] = "done"]
    /\ loop' = 0
    /\ UNCHANGED uploads
    /\ UNCHANGED <<parserVars, scorerVars, rawVars, currencyVars, apiVars, extractorVars>>

\* get_receipt: a request for unrelated work, handled on the event loop; it
\* reads the row and changes nothing
GetReceipt ==
    /\ loop = 0
    /\ UNCHANGED <<receipt, uploads, pc, eng, ext, upd, caught, loop, img, hist>>
    /\ UNCHANGED <<parserVars, scorerVars, rawVars, currencyVars, apiVars, extractorVars>>

Init ==
    /\ receipt \in {InitialReceipt(Some(0)), InitialReceipt(Some(4200))}
    /\ uploads = 0
    /\ pc = [t \in Tasks |-> "idle"]
    /\ eng = [t \in Tasks |-> NoEngine]
    /\ ext = [t \in Tasks |-> NoExtraction]
    /\ upd = [t \in Tasks |-> <<>>]
    /\ caught = [t \in Tasks |-> NoException]
    /\ loop = 0
    /\ img = [t \in Tasks |-> NoImage]
    /\ hist = [t \in Tasks |-> NoHistory]
    /\ ApiIdle
    /\ ExtractorIdle
    /\ text = <<>>
    /\ result = None
    /\ calls = 0
    /\ all_values = None
    /\ log = <<>>
    /\ leftover = <<>>
    /\ ocr_data = [conf |-> <<>>, text |-> <<>>]
    /\ score = 0
    /\ RawIdle
    /\ CurrencyIdle

Next ==
    \/ UploadReceiptImage
    \/ \E t \in Tasks : StartTask(t)
    \/ \E t \in Tasks : Preprocess(t)
    \/ \E t \in Tasks : Recognize(t)
    \/ \E t \in Tasks : CheckLength(t)
    \/ \E t \in Tasks : Parse(t)
    \/ \E t \in Tasks : BuildUpdate(t)
    \/ \E t \in Tasks : WriteUpdate(t)
    \/ \E t \in Tasks : HandleError(t)
    \/ GetReceipt

Spec == Init /\ [][Next]_vars

(***************************************************************************)
(* The background task next to update_receipt requests (UpdateSpec)        *)
(***************************************************************************)
\* the value of a ReceiptUpdate: a Decimal above zero, here 77.00
UpdateValues == {7700}

\* update_receipt handled whether or not a task occupies the event loop
UpdateReceipt_DuringTask ==
    /\ \E v \in UpdateValues : receipt' = Update(receipt, [value |-> Some(v)])
    /\ UNCHANGED <<uploads, pc, eng, ext, upd, caught, loop, img, hist>>
    /\ UNCHANGED <<parserVars, scorerVars, rawVars, currencyVars, apiVars, extractorVars>>

\* update_receipt with a value: the request handler runs on the event loop,
\* between tasks, and writes the value to the row
UpdateReceipt ==
    /\ loop = 0
    /\ \E v \in UpdateValues : receipt' = Update(receipt, [value |-> Some(v)])
    /\ UNCHANGED <<uploads, pc, eng, ext, upd, caught, loop, img, hist>>
    /\ UNCHANGED <<parserVars, scorerVars, rawVars, currencyVars, apiVars, extractorVars>>

UpdateInit ==
    /\ PipelineIdle
    /\ ApiIdle
    /\ ExtractorIdle
    /\ text = <<>>
    /\ result = None
    /\ calls = 0
    /\ all_values = None
    /\ log = <<>>
    /\ leftover = <<>>
    /\ ocr_data = [conf |-> <<>>, text |-> <<>>]
    /\ score = 0
    /\ RawIdle
    /\ CurrencyIdle

UpdateNext == Next \/ UpdateReceipt

UpdateSpec == UpdateInit /\ [][UpdateNext]_vars

(***************************************************************************)
(* Upload and delete requests on one receipt (UploadSpec)                  *)
(***************************************************************************)
UploadNext == UploadRequest \/ DeleteReceipt

UploadSpec == Init /\ [][UploadNext]_vars

(***************************************************************************)
(* The public operations of OCRExtractor on an image (ExtractorSpec)       *)
(***************************************************************************)
ExtractorInit ==
    /\ \E image_data \in ImageDatas :
          xcall = [image |-> image_data, extract_receipt_data |-> NoCall,
                   extract_text_only |-> NoCall]
    /\ PipelineIdle
    /\ ApiIdle
    /\ text = <<>>
    /\ result = None
    /\ calls = 0
    /\ all_values = None
    /\ log = <<>>
    /\ leftover = <<>>
    /\ ocr_data = [conf |-> <<>>, text |-> <<>>]
    /\ score = 0
    /\ RawIdle
    /\ CurrencyIdle

\* await extractor.extract_receipt_data(image_data)
CallExtractReceiptDataOnImage ==
    /\ \E step_fails \in (IF Decodable(xcall.image) THEN BOOLEAN ELSE {TRUE}) :
          \E o \in OutcomesFor(PreprocessImage(xcall.image, step_fails)) :
              xcall' = [xcall EXCEPT !.extract_receipt_data =
                           [step_failed |-> step_fails, eng |-> o,
                            reply |-> ExtractReceiptData(o)]]
    /\ UNCHANGED <<parserVars, scorerVars, pipeVars, rawVars, currencyVars, apiVars>>

\* await extractor.extract_text_only(image_data)
CallExtractTextOnly ==
    /\ \E step_fails \in (IF Decodable(xcall.image) THEN BOOLEAN ELSE {TRUE}) :
          \E o \in OutcomesFor(PreprocessImage(xcall.image, step_fails)) :
              xcall' = [xcall EXCEPT !.extract_text_only =
                           [step_failed |-> step_fails, eng |-> o,
                            reply |-> ExtractTextOnly(o)]]
    /\ UNCHANGED <<parserVars, scorerVars, pipeVars, rawVars, currencyVars, apiVars>>

ExtractorNext == CallExtractReceiptDataOnImage \/ CallExtractTextOnly

ExtractorSpec == ExtractorInit /\ [][ExtractorNext]_vars

(***************************************************************************)
(* Inputs of the parser: OCR texts made of words joined by separators      *)
(***************************************************************************)
MaxWords == 3

W_Subtotal_50_00 ==
    <<"S", "u", "b", "t", "o", "t", "a", "l", " ", "5", "0", ",", "0", "0">>
W_Total_125_50 ==
    <<"T", "o", "t", "a", "l", " ", "1", "2", "5", ",", "5", "0">>
W_Total     == <<"T", "o", "t", "a", "l">>
W_125_50    == <<"1", "2", "5", ",", "5", "0">>
W_900_00    == <<"9", "0", "0", ",", "0", "0">>
W_RS_300_00 == <<"R", "$", " ", "3", "0", "0", ",", "0", "0">>
W_0_00      == <<"0", ",", "0", "0">>

Words == {W_Subtotal_50_00, W_Total_125_50, W_125_50, W_900_00, W_RS_300_00, W_0_00}

Separators == {<<SP>>, <<SP, SP>>, <<NL>>}

RECURSIVE Join(_, _)
\* ws[1] seps[1] ws[2] ... seps[n-1] ws[n]
Join(ws, seps) ==
    IF Len(ws) = 0 THEN <<>>
    ELSE IF Len(ws) = 1 THEN ws[1]
    ELSE ws[1] \o seps[1] \o Join(Tail(ws), Tail(seps))

(***************************************************************************)
(* ParserSpec: extract_value applied to every text                         *)
(***************************************************************************)
ParserInit ==
    /\ \E n \in 0..MaxWords :
           \E ws \in [1..n -> Words], seps \in [1..(n - 1) -> Separators] :
               text = Join(ws, seps)
    /\ result = None
    /\ calls = 0
    /\ all_values = None
    /\ log = <<>>
    /\ leftover = <<>>
    /\ ocr_data = [conf |-> <<>>, text |-> <<>>]
    /\ score = 0
    /\ PipelineIdle
    /\ ApiIdle
    /\ ExtractorIdle
    /\ RawIdle
    /\ CurrencyIdle

\* value = self.value_parser.extract_value(text)
CallExtractValue ==
    /\ calls = 0
    /\ result' = ExtractValue(text)
    /\ calls' = calls + 1
    /\ UNCHANGED <<text, all_values, log, leftover>>
    /\ UNCHANGED <<scorerVars, pipeVars, rawVars, currencyVars, apiVars, extractorVars>>

ParserNext == CallExtractValue

ParserSpec == ParserInit /\ [][ParserNext]_vars

(***************************************************************************)
(* extract_receipt_data on recognized texts with surrounding whitespace,   *)
(* and extract_value applied to the text of the result (TrimSpec)          *)
(***************************************************************************)
MaxTrimWords == 2

TrimWords == {<<"T", "o", "t", "a", "l", SP, "1", "2", "5", ",", "5", "0">>,
              <<"9", "0", "0", ",", "0", "0">>,
              <<"0", ",", "0", "0">>,
              <<"R", "$", " ", "3", "0", "0", ",", "0", "0">>}

TrimSeparators == {<<SP>>, <<NL>>}

\* whitespace the engine leaves before and after the text
Paddings == {<<>>, <<SP>>, <<NL>>, <<TAB, NL>>}

TrimInit ==
    /\ \E n \in 1..MaxTrimWords :
           \E ws \in [1..n -> TrimWords], seps \in [1..(n - 1) -> TrimSeparators],
              before \in Paddings, after \in Paddings :
               text = before \o Join(ws, seps) \o after
    /\ result = None
    /\ calls = 0
    /\ all_values = None
    /\ log = <<>>
    /\ leftover = <<>>
    /\ ocr_data = [conf |-> <<>>, text |-> <<>>]
    /\ score = 0
    /\ PipelineIdle
    /\ ApiIdle
    /\ ExtractorIdle
    /\ RawIdle
    /\ CurrencyIdle

\* ocr_result = await ocr_extractor.extract_receipt_data(image_data), the
\* engine having recognized text
CallExtractReceiptData ==
    /\ ext[1] = NoExtraction
    /\ \E d \in EngineDatas :
          ext' = [ext EXCEPT ![1] =
                     ExtractReceiptData([kind |-> "ok", text |-> text, data |-> d])]
    /\ UNCHANGED <<receipt, uploads, pc, eng, upd, caught, loop, img, hist>>
    /\ UNCHANGED <<parserVars, scorerVars, rawVars, currencyVars, apiVars, extractorVars>>

\* extract_value(ocr_result["text"]): the parser on the text of the result
CallExtractValueOnResult ==
    /\ ext[1].kind = "result"
    /\ calls = 0
    /\ result' = ExtractValue(ext[1].text)
    /\ calls' = calls + 1
    /\ UNCHANGED <<text, all_values, log, leftover>>
    /\ UNCHANGED <<scorerVars, pipeVars, rawVars, currencyVars, apiVars, extractorVars>>

TrimNext == CallExtractReceiptData \/ CallExtractValueOnResult

TrimSpec == TrimInit /\ [][TrimNext]_vars

(***************************************************************************)
(* RangeSpec: extract_value and extract_all_values applied to texts with   *)
(* amounts at and beyond the limits of the accepted range                  *)
(***************************************************************************)
MaxRangeWords == 2

W_0_01             == <<"0", ",", "0", "1">>
W_1_000_000_00     == <<"1", ".", "0", "0", "0", ".", "0", "0", "0", ",", "0", "0">>
W_1_000_000_01     == <<"1", ".", "0", "0", "0", ".", "0", "0", "0", ",", "0", "1">>
W_Total_2_000_000_00 ==
    <<"T", "o", "t", "a", "l", " ",
      "2", ".", "0", "0", "0", ".", "0", "0", "0", ",", "0", "0">>
W_Total_0_00       == <<"T", "o", "t", "a", "l", " ", "0", ",", "0", "0">>

RangeWords ==
    {W_0_00, W_0_01, W_1_000_000_00, W_1_000_000_01, W_Total_2_000_000_00,
     W_Total_0_00, W_125_50}

RangeInit ==
    /\ \E n \in 0..MaxRangeWords :
           \E ws \in [1..n -> RangeWords], seps \in [1..(n - 1) -> Separators] :
               text = Join(ws, seps)
    /\ result = None
    /\ calls = 0
    /\ all_values = None
    /\ log = <<>>
    /\ leftover = <<>>
    /\ ocr_data = [conf |-> <<>>, text |-> <<>>]
    /\ score = 0
    /\ PipelineIdle
    /\ ApiIdle
    /\ ExtractorIdle
    /\ RawIdle
    /\ CurrencyIdle

\* self.value_parser.extract_all_values(text)
CallExtractAllValues ==
    /\ all_values = None
    /\ all_values' = Some(ExtractAllValues(text))
    /\ UNCHANGED <<text, result, calls, log, leftover>>
    /\ UNCHANGED <<scorerVars, pipeVars, rawVars, currencyVars, apiVars, extractorVars>>

RangeNext == CallExtractValue \/ CallExtractAllValues

RangeSpec == RangeInit /\ [][RangeNext]_vars

(***************************************************************************)
(* RepeatSpec: extract_value called repeatedly on one text, with calls on  *)
(* other texts in between                                                  *)
(***************************************************************************)
MaxRepeatWords == 2
MaxRepeatCalls == 2

RepeatWords == {W_125_50, W_900_00, W_Total_125_50, W_Subtotal_50_00}

RepeatSeparators == {<<SP, SP>>, <<NL>>}

OtherTexts == {W_900_00, W_Total_125_50}

RepeatInit ==
    /\ \E n \in 0..MaxRepeatWords :
           \E ws \in [1..n -> RepeatWords],
              seps \in [1..(n - 1) -> RepeatSeparators] :
               text = Join(ws, seps)
    /\ result = None
    /\ calls = 0
    /\ all_values = None
    /\ log = <<>>
    /\ leftover = <<>>
    /\ ocr_data = [conf |-> <<>>, text |-> <<>>]
    /\ score = 0
    /\ PipelineIdle
    /\ ApiIdle
    /\ ExtractorIdle
    /\ RawIdle
    /\ CurrencyIdle

\* one more extract_value(text)
CallExtractValueAgain ==
    /\ Len(log) < MaxRepeatCalls
    /\ \E values \in FindAllValuesLists(text, leftover) :
          /\ log' = Append(log, ExtractValueOn(text, values))
          /\ leftover' = values
    /\ UNCHANGED <<text, result, calls, all_values>>
    /\ UNCHANGED <<scorerVars, pipeVars, rawVars, currencyVars, apiVars, extractorVars>>

\* extract_value on another text
CallOnOtherText ==
    /\ Len(log) < MaxRepeatCalls
    /\ \E other \in OtherTexts :
          \E values \in FindAllValuesLists(other, leftover) :
              leftover' = values
    /\ UNCHANGED <<text, result, calls, all_values, log>>
    /\ UNCHANGED <<scorerVars, pipeVars, rawVars, currencyVars, apiVars, extractorVars>>

RepeatNext == CallExtractValueAgain \/ CallOnOtherText

RepeatSpec == RepeatInit /\ [][RepeatNext]_vars

(***************************************************************************)
(* ScorerSpec: calculate_confidence applied to every token set             *)
(***************************************************************************)
MaxTokens == 3

\* per-token confidences: Tesseract reports -1 (no data) and 0..100; -20 and
\* 130 stand for out-of-range values
ConfValues == {-20, -1, 0, 33, 34, 62, 130}

TokenTexts == {<<>>, <<SP>>, <<"a">>}

ScorerInit ==
    /\ \E n \in 0..MaxTokens :
           \E c \in [1..n -> ConfValues], t \in [1..n -> TokenTexts] :
               ocr_data = [conf |-> c, text |-> t]
    /\ score = 0
    /\ calls = 0
    /\ all_values = None
    /\ log = <<>>
    /\ leftover = <<>>
    /\ text = <<>>
    /\ result = None
    /\ PipelineIdle
    /\ ApiIdle
    /\ ExtractorIdle
    /\ RawIdle
    /\ CurrencyIdle

\* confidence = calculate_confidence(data)
CallCalculateConfidence ==
    /\ calls = 0
    /\ score' = CalculateConfidence(ocr_data)
    /\ calls' = 1
    /\ UNCHANGED <<ocr_data, text, result, all_values, log, leftover>>
    /\ UNCHANGED <<pipeVars, rawVars, currencyVars, apiVars, extractorVars>>

ScorerNext == CallCalculateConfidence

ScorerSpec == ScorerInit /\ [][ScorerNext]_vars

(***************************************************************************)
(* RawScorerSpec: calculate_confidence applied to arbitrary arguments      *)
(***************************************************************************)
MaxRawTokens == 2

RawConfs ==
    {ConfInt(-1), ConfInt(-20), ConfInt(50), ConfInt(130), ConfNumStr(95),
     ConfStr, ConfNone, ConfNaN}

RawTexts == {TextNone, TextInt, TextStr(<<>>), TextStr(<<SP>>), TextStr(<<"a">>)}

RawScorerInit ==
    /\ \E n \in 0..MaxRawTokens, m \in 0..MaxRawTokens :
           \E c \in [1..n -> RawConfs], t \in [1..m -> RawTexts] :
               raw = [conf |-> c, text |-> t]
    /\ outcome = NoOutcome
    /\ ocr_data = [conf |-> <<>>, text |-> <<>>]
    /\ score = 0
    /\ calls = 0
    /\ all_values = None
    /\ log = <<>>
    /\ leftover = <<>>
    /\ text = <<>>
    /\ result = None
    /\ PipelineIdle
    /\ ApiIdle
    /\ ExtractorIdle
    /\ CurrencyIdle

\* calculate_confidence(raw)
CallCalculateConfidenceRaw ==
    /\ outcome = NoOutcome
    /\ outcome' = CalculateConfidenceRaw(raw)
    /\ UNCHANGED <<raw, parserVars, scorerVars, pipeVars, currencyVars, apiVars, extractorVars>>

RawScorerNext == CallCalculateConfidenceRaw

RawScorerSpec == RawScorerInit /\ [][RawScorerNext]_vars

(***************************************************************************)
(* CurrencySpec: parse_value and parse_brl applied to formatted amounts    *)
(* and to malformed strings                                                *)
(***************************************************************************)
\* Decimal("1000000.00"), in cents
MaxValidCents == 100000000

Pow10(k) == CASE k = 0 -> 1 [] k = 1 -> 10 [] k = 2 -> 100 [] k = 3 -> 1000
              [] k = 4 -> 10000 [] k = 5 -> 100000 [] k = 6 -> 1000000
              [] k = 7 -> 10000000 [] k = 8 -> 100000000

\* amounts of every length from 0.01 to 1,000,000.00
Amounts ==
    {c \in {a * Pow10(k) + b : a \in 1..9, k \in 0..8, b \in {0, 1, 5}} \cup
              {Pow10(k) - 1 : k \in 1..8} \cup {12550, 123456} :
        c >= 1 /\ c <= MaxValidCents}

M_1_2_3       == <<"1", ",", "2", ",", "3">>
M_12_34_56    == <<"1", "2", ",", "3", "4", ",", "5", "6">>
M_RS_12_34_56 == <<"R", "$", SP, "1", "2", ",", "3", "4", ",", "5", "6">>
M_RS_1_2_3    == <<"R", "$", SP, "1", ",", "2", ",", "3">>
M_1_234_5_6   == <<"1", ".", "2", "3", "4", ",", "5", ",", "6">>

\* strings with two decimal separators
Malformed == {M_1_2_3, M_12_34_56, M_RS_12_34_56, M_RS_1_2_3, M_1_234_5_6}

CurrencyInit ==
    /\ \/ \E x \in Amounts : amount = Some(x) /\ brl_str = FormatBrl(x)
       \/ \E m \in Malformed : amount = None /\ brl_str = m
    /\ parsed = [parse_value |-> NotCalled, parse_brl |-> NotCalled]
    /\ text = <<>>
    /\ result = None
    /\ calls = 0
    /\ all_values = None
    /\ log = <<>>
    /\ leftover = <<>>
    /\ ocr_data = [conf |-> <<>>, text |-> <<>>]
    /\ score = 0
    /\ PipelineIdle
    /\ ApiIdle
    /\ ExtractorIdle
    /\ RawIdle

\* ValueParser().parse_value(brl_str) and parse_brl(brl_str)
CallParse ==
    /\ parsed.parse_value = NotCalled
    /\ parsed' = [parse_value |-> ParseValue(brl_str), parse_brl |-> ParseBrl(brl_str)]
    /\ UNCHANGED <<brl_str, amount, parserVars, scorerVars, pipeVars, rawVars, apiVars, extractorVars>>

CurrencyNext == CallParse

CurrencySpec == CurrencyInit /\ [][CurrencyNext]_vars

(***************************************************************************)
(* Properties of ValueParser (ParserSpec)                                  *)
(***************************************************************************)
RECURSIVE SplitWhitespace(_)
\* the maximal runs of non-whitespace characters of s, left to right
SplitWhitespace(s) ==
    LET t == LStrip(s)
    IN  IF Len(t) = 0 THEN <<>>
        ELSE LET stops == {i \in 1..Len(t) : t[i] \in Whitespace}
                 k == IF stops = {} THEN Len(t) + 1
                      ELSE CHOOSE i \in stops : \A j \in stops : i <= j
             IN  <<SubSeq(t, 1, k - 1)>> \o SplitWhitespace(SubSeq(t, k, Len(t)))

\* a word of the shape  digits , digit digit
IsAmountWord(w) ==
    /\ Len(w) >= 4
    /\ w[Len(w) - 2] = ","
    /\ \A i \in 1..Len(w) : i # Len(w) - 2 => w[i] \in Digits

\* the amounts, in cents, written in the text as words of their own that are
\* positive and at most 1,000,000.00
AmountsPresent(t) ==
    LET ws == SplitWhitespace(t)
    IN  {c \in {ToInt(Remove(ws[i], ",")) : i \in {j \in 1..Len(ws) : IsAmountWord(ws[j])}} :
            c > 0 /\ c <= 100000000}

TextLines(t) == Split(t, NL)

StartsWith(s, prefix) ==
    Len(s) >= Len(prefix) /\ SubSeq(s, 1, Len(prefix)) = prefix

\* C1: when the text has the line "Total 125,50" and no other line that starts
\* with "Total", whatever amounts the other lines carry (a "Subtotal 50,00"
\* line among them, before or after it), extract_value returns 125.50
C1_TotalLineWins ==
    LET ls == TextLines(text)
    IN  (/\ calls > 0
         /\ \E i \in 1..Len(ls) :
               /\ ls[i] = W_Total_125_50
               /\ \A j \in 1..Len(ls) : j # i => ~StartsWith(ls[j], W_Total))
        => result = Some(12550)

\* C1, the case with the Subtotal line first: the state the claim fails in
C1_SubtotalFirstWitness ==
    /\ calls > 0
    /\ text = W_Subtotal_50_00 \o <<NL>> \o W_Total_125_50
    /\ result = Some(5000)

\* C2: when no line contains a total keyword and the text has at least one valid
\* amount, extract_value returns the largest valid amount of the text, whether
\* the amounts are separated by one space, several spaces or a newline
C2_LargestWithoutKeyword ==
    (/\ calls > 0
     /\ \A i \in 1..Len(TOTAL_KEYWORDS) : ~Contains(Lower(text), TOTAL_KEYWORDS[i])
     /\ AmountsPresent(text) # {})
    => result = Some(Max(AmountsPresent(text)))

\* digit , digit digit  at position i
AmountShapeAt(t, i) ==
    CharAt(t, i, Digits) /\ CharAt(t, i + 1, {","}) /\ DigitsAt(t, i + 2, 2)

\* the amount shape at position i is the amount 0,00 and nothing precedes its 0
ZeroAmountAt(t, i) ==
    /\ t[i] = "0" /\ t[i + 2] = "0" /\ t[i + 3] = "0"
    /\ ~CharAt(t, i - 1, Digits \cup {"."})

\* the text has no amount pattern other than 0,00
NoValidAmount(t) ==
    \A i \in 1..Len(t) : AmountShapeAt(t, i) => ZeroAmountAt(t, i)

\* C8: for a text with no recognizable valid amount extract_value returns None;
\* it returns Decimal(0) for no text
C8_AbsentWithoutAmount ==
    /\ (calls > 0 /\ NoValidAmount(text)) => result = None
    /\ result # Some(0)

\* C8: extract_value has returned None for a text whose only amounts are 0,00
C8_Witness ==
    /\ calls > 0
    /\ NoValidAmount(text)
    /\ \E i \in 1..Len(text) : AmountShapeAt(text, i)
    /\ result = None

(***************************************************************************)
(* Properties of calculate_confidence (ScorerSpec)                         *)
(***************************************************************************)
\* the tokens with a non-blank text and a confidence other than -1
ValidTokens(d) ==
    {i \in 1..Len(d.conf) :
        /\ \E j \in 1..Len(d.text[i]) : d.text[i][j] \notin Whitespace
        /\ d.conf[i] # -1}

RECURSIVE SumOver(_, _)
SumOver(c, I) ==
    IF I = {} THEN 0
    ELSE LET i == CHOOSE j \in I : TRUE IN c[i] + SumOver(c, I \ {i})

Clamp(x, lo, hi) == IF x < lo THEN lo ELSE IF x > hi THEN hi ELSE x

\* C9: with at least one valid token the score is the mean of the valid tokens'
\* confidences over 100, clamped to [0,1], rounded to one of the nearest
\* hundredths; excluded tokens do not count, and one valid token of
\* confidence c in 0..100 scores c/100
C9_MeanOfValidTokens ==
    LET V == ValidTokens(ocr_data)
        n == Cardinality(V)
        total == Clamp(SumOver(ocr_data.conf, V), 0, 100 * n)
    IN  (calls = 1 /\ V # {}) =>
            /\ score \in 0..100
            /\ 2 * n * score - 2 * total \in (0 - n)..n
            /\ \A i \in V :
                  (n = 1 /\ ocr_data.conf[i] \in 0..100) => score = ocr_data.conf[i]

\* C9: two valid tokens and a token without confidence data have been scored
C9_Witness ==
    /\ calls = 1
    /\ Cardinality(ValidTokens(ocr_data)) = 2
    /\ \E i \in 1..Len(ocr_data.conf) :
          ocr_data.conf[i] = -1 /\ ocr_data.text[i] = <<"a">>
    /\ score = 48

\* C10: when every token has confidence -1 or a blank text (the empty token set
\* included) the score is 0.0
C10_ZeroWithoutValidTokens ==
    (calls = 1 /\ ValidTokens(ocr_data) = {}) => score = 0

\* C10: a token set of blank texts with confidences and of texts without
\* confidence data has been scored 0.0
C10_Witness ==
    /\ calls = 1
    /\ ValidTokens(ocr_data) = {}
    /\ \E i \in 1..Len(ocr_data.conf) :
          ocr_data.conf[i] = 62 /\ ocr_data.text[i] = <<SP>>
    /\ \E i \in 1..Len(ocr_data.conf) :
          ocr_data.conf[i] = -1 /\ ocr_data.text[i] = <<"a">>
    /\ score = 0

(***************************************************************************)
(* Properties of the extraction and of the background task (Spec)          *)
(***************************************************************************)
\* the number of characters from the first to the last non-whitespace one
TrimmedLength(t) ==
    LET I == {i \in 1..Len(t) : t[i] \notin Whitespace}
    IN  IF I = {} THEN 0
        ELSE (CHOOSE i \in I : \A j \in I : i >= j)
                 - (CHOOSE i \in I : \A j \in I : i <= j) + 1

ExtractionEnded(t) == pc[t] \in {"failed", "extracted", "writing", "handling"}

\* C3: extract_receipt_data raises, and then an OCRProcessingException, exactly
\* when recognition failed or the trimmed text has fewer than 10 characters;
\* otherwise it returns a result, also when the parser found no value
C3_FailsIffInsufficient ==
    \A t \in Tasks :
        ExtractionEnded(t) =>
            /\ ext[t].kind = "exception"
                  <=> (eng[t].kind # "ok" \/ TrimmedLength(eng[t].text) < 10)
            /\ ext[t].kind = "exception" => ext[t].exc.type = "OCRProcessingException"
            /\ ext[t].kind # "exception" => ext[t].kind = "result"

\* C3: an extraction has returned a result without a value for a text of 10
\* characters
C3_Witness ==
    \E t \in Tasks :
        /\ pc[t] = "extracted"
        /\ eng[t].text = ET_Ten
        /\ ext[t].kind = "result"
        /\ ext[t].value = None

\* C4: when process_ocr_background finishes, the receipt is 'processed' if the
\* extraction returned a result, and it is 'error' only if the extraction raised
C4_ErrorOnlyForFailedExtraction ==
    [][\A t \in Tasks :
          (pc[t] # "done" /\ pc'[t] = "done") =>
              /\ ext[t].kind = "result" => receipt'.status = "processed"
              /\ receipt'.status = "error" => ext[t].kind = "exception"]_vars

\* C5: once every scheduled background task has finished, the receipt is
\* 'processed' or 'error', not 'processing'
C5_NeverLeftProcessing ==
    (uploads > 0 /\ \A t \in Tasks : pc[t] \in {"idle", "done"})
        => receipt.status \in {"processed", "error"}

\* why an extraction on engine outcome o fails
FailureCause(o) == IF o.kind = "ok" THEN "insufficient_text" ELSE o.kind

\* C6: the failure of an extraction differs in exception type or error code from
\* the failure any other of the causes engine-not-installed, timeout and
\* insufficient text produces
C6_DistinctTypedFailures ==
    \A t \in Tasks :
        pc[t] = "failed" =>
            \A o \in EngineOutcomes :
                (/\ ExtractReceiptData(o).kind = "exception"
                 /\ FailureCause(o) # FailureCause(eng[t])
                 /\ {FailureCause(o), FailureCause(eng[t])}
                        \subseteq {"not_found", "timeout", "insufficient_text"})
                => \/ ExtractReceiptData(o).exc.type # ext[t].exc.type
                   \/ ExtractReceiptData(o).exc.code # ext[t].exc.code

\* C7: while a recognition call is in progress the process can serve another
\* request
C7_OtherRequestsProgress ==
    \A t \in Tasks : pc[t] = "recognizing" => ENABLED GetReceipt

(***************************************************************************)
(* Properties of calculate_confidence on arbitrary arguments               *)
(* (RawScorerSpec)                                                         *)
(***************************************************************************)
\* C11: calculate_confidence is total: for every argument (keys missing, lists
\* of different lengths, confidences outside 0..100, non-numeric entries) the
\* call returns a score in [0,1] and does not raise
C11_ScoreIsTotal ==
    outcome # NoOutcome =>
        /\ outcome.kind = "returned"
        /\ 0 <= outcome.value /\ outcome.value <= 100

\* C11: a call has returned although the conversion of a non-numeric entry
\* raised inside it, on lists of different lengths
C11_Witness ==
    /\ outcome.kind = "returned"
    /\ Len(raw.conf) # Len(raw.text)
    /\ CalculateConfidenceBody(raw).kind = "raised"
    /\ CalculateConfidenceBody(raw).exc = "TypeError"

(***************************************************************************)
(* Properties of preprocessing inside the background task (Spec)           *)
(***************************************************************************)
PastPreprocessing(t) ==
    pc[t] \in {"recognizing", "recognized", "parsing", "extracted", "writing",
               "failed", "handling"}

PastRecognition(t) == PastPreprocessing(t) /\ pc[t] # "recognizing"

\* C12: preprocess_image does not raise: when a step of it failed it returned
\* exactly the bytes it was given, extract_receipt_data went on to the
\* recognition step with those bytes, and an extraction fails only after the
\* engine was invoked
C12_PreprocessingAbsorbed ==
    \A t \in Tasks :
        /\ (PastPreprocessing(t) /\ img[t].step_failed) => img[t].pre = img[t].data
        /\ PastRecognition(t) => (img[t].seen = img[t].pre /\ hist[t].engine = 1)
        /\ pc[t] = "failed" => hist[t].engine = 1

\* C12: bytes that do not decode went through preprocessing unchanged and
\* reached the recognition step, which failed on them
C12_Witness ==
    \E t \in Tasks :
        /\ pc[t] = "failed"
        /\ img[t].data = "truncated"
        /\ img[t].step_failed
        /\ img[t].seen = "truncated"

\* C13: a successful extract_receipt_data returns the parser's result for the
\* recognized text as value and the scorer's result as confidence, each
\* whatever the other is
C13_ValueAndConfidenceIndependent ==
    \A t \in Tasks :
        (ExtractionEnded(t) /\ ext[t].kind = "result") =>
            /\ ext[t].value = ExtractValue(eng[t].text)
            /\ ext[t].confidence = CalculateConfidence(eng[t].data)

\* C13: an extraction has returned a found value together with confidence 0.0
C13_Witness ==
    \E t \in Tasks :
        /\ pc[t] = "extracted"
        /\ ext[t].kind = "result"
        /\ ext[t].value = Some(12550)
        /\ ext[t].confidence = 0

\* C14: when process_ocr_background finishes, the receipt's value has changed
\* only if a value was found, the confidence is at least 0.7 and the receipt
\* had no value; after a successful extraction with confidence below 0.7 the
\* value is unchanged and ocr_text, ocr_confidence and status 'processed' are
\* stored
C14_AutoFillGate ==
    [][\A t \in Tasks :
          (pc[t] # "done" /\ pc'[t] = "done") =>
              /\ receipt'.value # receipt.value =>
                     /\ Truthy(ext[t].value)
                     /\ ext[t].confidence >= 70
                     /\ ~Truthy(receipt.value)
              /\ (ext[t].kind = "result" /\ ext[t].confidence < 70) =>
                     /\ receipt'.value = receipt.value
                     /\ receipt'.ocr_text = Some(ext[t].text)
                     /\ receipt'.ocr_confidence = Some(ext[t].confidence)
                     /\ receipt'.status = "processed"]_vars

(***************************************************************************)
(* Properties of currency parsing and formatting (CurrencySpec)            *)
(***************************************************************************)
\* C15: parsing a malformed currency string, one with two decimal separators,
\* with parse_value and with parse_brl returns absent: no call raises and no
\* call yields an amount
C15_MalformedIsAbsent ==
    (amount = None /\ parsed.parse_value # NotCalled) =>
        /\ parsed.parse_value = CallReturned(None)
        /\ parsed.parse_brl = CallReturned(None)

\* C16: for an amount x of two decimal places from 0.01 to 1,000,000.00,
\* parse_brl and parse_value applied to format_brl(x) return x, and 1234.56 is
\* formatted as 'R$ 1.234,56'
C16_FormatParseRoundTrip ==
    /\ amount = Some(123456) =>
           brl_str = <<"R", "$", SP, "1", ".", "2", "3", "4", ",", "5", "6">>
    /\ (amount # None /\ parsed.parse_value # NotCalled) =>
           /\ parsed.parse_brl = CallReturned(amount)
           /\ parsed.parse_value = CallReturned(amount)

\* C16: 1,000,000.00 was formatted with two thousands separators and parsed back
C16_Witness ==
    /\ amount = Some(100000000)
    /\ Len(brl_str) = 15
    /\ parsed.parse_brl = CallReturned(amount)
    /\ parsed.parse_value = CallReturned(amount)

(***************************************************************************)
(* Properties of the accepted range (RangeSpec)                            *)
(***************************************************************************)
\* C17: the amount extract_value returns and every element extract_all_values
\* returns is above zero and not above 1,000,000.00
C17_ReturnedAmountsInRange ==
    /\ (calls = 1 /\ result # None) =>
           (result[1] > 0 /\ result[1] <= 100000000)
    /\ all_values # None =>
           \A v \in all_values[1] : v > 0 /\ v <= 100000000

\* C17: on a text whose total line carries an amount above the limit, followed
\* by a valid amount, both calls returned the valid amount only
C17_Witness ==
    /\ StartsWith(text, W_Total_2_000_000_00)
    /\ calls = 1
    /\ result = Some(12550)
    /\ all_values = Some({12550})

C19_NoRetry ==
    \A t \in Tasks :
        /\ hist[t].engine <= 1
        /\ hist[t].raised <= 1
        /\ hist[t].error_writes <= 1
        /\ pc[t] = "failed" => (hist[t].raised = 1 /\ hist[t].engine = 1)
        /\ hist[t].raised = 1 => pc[t] \in {"failed", "done"}

\* C19: a run has ended after one engine invocation, one exception and one
\* 'error' write
C19_Witness ==
    \E t \in Tasks :
        /\ pc[t] = "done"
        /\ hist[t] = [engine |-> 1, raised |-> 1, error_writes |-> 1, result_writes |-> 0]
        /\ receipt.status = "error"

(***************************************************************************)
(* Properties of the amount's representation (Spec)                        *)
(***************************************************************************)
\* C20: the amount is an exact decimal wherever it is carried: as returned by
\* the extraction, in the update process_ocr_background builds, and on the
\* receipt
C20_AmountStaysDecimal ==
    /\ IsDecimal(receipt.value)
    /\ \A t \in Tasks :
          /\ IsDecimal(ext[t].value)
          /\ (pc[t] = "writing" /\ "value" \in DOMAIN upd[t]) => IsDecimal(upd[t].value)

(***************************************************************************)
(* Properties of total disambiguation (ParserSpec)                         *)
(***************************************************************************)
\* the amounts of the candidate set that some value pattern matches on a line
LineCandidates(line, values) ==
    UNION {LET ms == FindIter(p, line)
           IN  {v[1] : v \in {w \in {ParseBrazilianCurrency(ms[i].group) :
                                        i \in 1..Len(ms)} :
                                  Truthy(w) /\ w[1] \in values}} :
           p \in 1..NumPatterns}

\* C23: the first line, top to bottom, that contains a total keyword and holds
\* a pattern match that is a candidate determines the result: extract_value
\* returns a candidate matched on that line, also when a match that is not a
\* candidate (0,00) precedes it on the line, and never falls back to the
\* largest amount of the text
C23_KeywordLineDecides ==
    LET ls     == Split(Lower(text), NL)
        values == FindAllValues(text)
        K      == {i \in 1..Len(ls) :
                      HasKeyword(ls[i]) /\ LineCandidates(ls[i], values) # {}}
        first  == CHOOSE i \in K : \A j \in K : i <= j
    IN  (calls > 0 /\ K # {}) =>
            /\ result # None
            /\ result[1] \in LineCandidates(ls[first], values)

(***************************************************************************)
(* Properties of the returned text and value (TrimSpec)                    *)
(***************************************************************************)
\* C30: the value extract_receipt_data returns, parsed from the untrimmed
\* recognized text, equals extract_value applied to the trimmed text it returns
C30_ValueReproducibleFromText ==
    (ext[1].kind = "result" /\ calls = 1) => result = ext[1].value

\* C30: the recognized text began with a tab and a newline and ended with a
\* space, the result carries the trimmed text, and both parses gave 900.00
C30_Witness ==
    /\ ext[1].kind = "result"
    /\ calls = 1
    /\ Head(text) = TAB
    /\ text[Len(text)] = SP
    /\ ext[1].text = Strip(text)
    /\ ext[1].text # text
    /\ result = Some(90000)
    /\ ext[1].value = Some(90000)

(***************************************************************************)
(* Properties of the stored OCR fields across runs (Spec)                  *)
(***************************************************************************)
\* C26: whenever the receipt's status is 'processed' its ocr_error is empty: a
\* successful run leaves no error message of an earlier failed run behind
C26_ProcessedHasNoError ==
    receipt.status = "processed" => receipt.ocr_error = None

(***************************************************************************)
(* Properties of the stages of extract_receipt_data (Spec)                 *)
(***************************************************************************)
\* C25: a call of extract_receipt_data passes Preprocessing, Recognizing and
\* Parsing in this order and ends either with a result or with a failure:
\* Parsing is entered only from a successful recognition with sufficient text,
\* a result is returned only from Parsing, and a call that failed in
\* Recognizing or on the length check returns no result and does not parse
C25_StagesInOrder ==
    [][\A t \in Tasks :
          /\ (pc'[t] = "recognizing" /\ pc[t] # "recognizing") =>
                 pc[t] = "preprocessing"
          /\ (pc'[t] = "parsing" /\ pc[t] # "parsing") =>
                 /\ pc[t] = "recognized"
                 /\ ExtractText(eng[t]).kind = "return"
                 /\ ~InsufficientText(eng[t].text)
          /\ (pc'[t] = "extracted" /\ pc[t] # "extracted") =>
                 /\ pc[t] = "parsing"
                 /\ ext'[t].kind = "result"
          /\ (pc'[t] = "failed" /\ pc[t] # "failed") =>
                 /\ pc[t] \in {"recognizing", "recognized"}
                 /\ ext'[t].kind = "exception"
                 /\ ext'[t].value = None
          /\ pc[t] = "failed" =>
                 /\ pc'[t] \in {"failed", "done"}
                 /\ ext[t].kind = "exception"]_vars

\* C25: a call whose recognition succeeded has failed on the length check,
\* without a value
C25_Witness ==
    \E t \in Tasks :
        /\ pc[t] = "failed"
        /\ eng[t].kind = "ok"
        /\ InsufficientText(eng[t].text)
        /\ ext[t].kind = "exception"
        /\ ext[t].value = None

(***************************************************************************)
(* Properties of two uploads for one receipt (Spec)                        *)
(***************************************************************************)
\* the fields of the row a background task writes its outcome to
OcrFields(row) == <<row.ocr_text, row.ocr_confidence, row.status>>

\* C28: once the background task of a later upload has written its outcome to
\* the receipt, the task of an earlier upload does not change the receipt's
\* OCR text, confidence and status when it finishes, in whatever order the two
\* tasks run
C28_LaterImageResultStays ==
    [][\A t, u \in Tasks :
          (/\ t < u
           /\ hist[u].result_writes + hist[u].error_writes > 0
           /\ pc[t] # "done"
           /\ pc'[t] = "done")
          => OcrFields(receipt') = OcrFields(receipt)]_vars

C21_ValidationStatusCodes ==
    http.op = "upload" =>
        /\ http.fault \in {"bad_type", "too_large"} => http.status = 400
        /\ http.fault \in {"corrupt", "bad_dimensions"} => http.status = 422
        /\ http.fault = "not_found" => http.status = 404

\* C22: after a delete_receipt request has succeeded on a receipt with an
\* uploaded image, neither the original image nor the thumbnail of the receipt
\* is in the storage
C22_DeleteRemovesImages ==
    (http.op = "delete" /\ http.status = 200 /\ receipt.image_url # None) =>
        storage = {}

\* C29: an upload request that fails at a validation or in the storage upload
\* leaves the receipt's row as it was and schedules no background task, and a
\* task is scheduled only in a step that sets the status to 'processing'
C29_FailedUploadChangesNothing ==
    [][/\ (/\ http' # http
           /\ http'.op = "upload"
           /\ http'.fault \in {"bad_type", "too_large", "corrupt", "bad_dimensions",
                               "original_upload", "thumbnail_upload", "signed_url"})
          => (receipt' = receipt /\ pc' = pc /\ uploads' = uploads)
       /\ \A t \in Tasks :
             (pc[t] = "idle" /\ pc'[t] = "scheduled") =>
                 /\ receipt'.status = "processing"
                 /\ receipt'.image_url = Some(t)
                 /\ http'.fault = "none"]_vars

\* C29: an upload failed at the thumbnail, after the original was stored: the
\* receipt is still pending without image and no task is scheduled
C29_Witness ==
    /\ http = [op |-> "upload", fault |-> "thumbnail_upload", status |-> 500]
    /\ storage = {"original"}
    /\ receipt.status = "pending"
    /\ receipt.image_url = None
    /\ uploads = 0
    /\ \A t \in Tasks : pc[t] = "idle"

(***************************************************************************)
(* Properties of the public operations of OCRExtractor (ExtractorSpec)     *)
(***************************************************************************)
\* C24: when the recognition adapter raises anything other than
\* engine-not-found, a timeout included, extract_receipt_data and
\* extract_text_only raise an OCRProcessingException
C24_AdapterFailuresWrapped ==
    \A c \in {xcall.extract_receipt_data, xcall.extract_text_only} :
        (c.eng.kind \in {"timeout", "error"}) =>
            /\ c.reply.kind = "exception"
            /\ c.reply.exc.type = "OCRProcessingException"

====
